---- MODULE Spec2Model ----
(***************************************************************************)
(* A model of dclnt.py: the directory scan (_get_trees_in_path, _get_tree),*)
(* the three identifier extractors, the Report word list and its stages,   *)
(* the fluent analyzer builder, and the command-line program.              *)
(*                                                                         *)
(* Words and file names are sequences of one-character strings, so that    *)
(* startswith / endswith / split('_') / lower() are computed, not assumed. *)
(***************************************************************************)
EXTENDS Integers, Sequences, FiniteSets, TLC

\* ------------------------------------------------------------------ bounds

\* Largest n given to top(n) by the modelled callers of the builder.
MaxTop == 2
\* The "big" corpus: BigDirCount directories of BigDirFiles matching files each.
BigDirFiles == 10
BigDirCount == 11

\* ------------------------------------------------------- program constants

\* len(trees) == 100 in _get_trees_in_path.
Cap == 100
\* top(self, top_size=10): the default the command-line program uses.
DefaultTopSize == 10
\* top_size = 200 in ConsoleOutputReport.output_report.
ConsoleTopSize == 200

\* --------------------------------------------------------- strings as data

U == "_"

EndsWith(s, suf) ==
    /\ Len(suf) <= Len(s)
    /\ SubSeq(s, Len(s) - Len(suf) + 1, Len(s)) = suf

StartsWith(s, pre) ==
    /\ Len(pre) <= Len(s)
    /\ SubSeq(s, 1, Len(pre)) = pre

LowerChar(c) ==
    CASE c = "G" -> "g"
      [] c = "I" -> "i"
      [] c = "A" -> "a"
      [] OTHER -> c

\* str.lower()
Lower(w) == [i \in DOMAIN w |-> LowerChar(w[i])]

\* _flat: sum([list(item) for item in _list], [])
\* (the concatenation is associative: halving keeps the evaluation shallow)
RECURSIVE _flat(_)
_flat(list) ==
    IF Len(list) = 0 THEN <<>>
    ELSE IF Len(list) = 1 THEN list[1]
    ELSE LET mid == Len(list) \div 2
         IN  _flat(SubSeq(list, 1, mid)) \o _flat(SubSeq(list, mid + 1, Len(list)))

\* _is_magic_name
\* (variant: a check that needs a character between the two underscore pairs)
IsMagicNameLong(name) ==
    StartsWith(name, <<U, U>>) /\ EndsWith(name, <<U, U>>) /\ Len(name) > 4

_is_magic_name(name) ==
    StartsWith(name, <<U, U>>) /\ EndsWith(name, <<U, U>>)

\* ---------------------------------------------------------- syntax trees

\* A syntax tree is the sequence of its nodes in ast.walk order.  ident is
\* FunctionDef.name or Name.id; targets are the nodes of Assign.targets.
Node(type, ident, targets) == [type |-> type, ident |-> ident, targets |-> targets]
ModuleNode == Node("Module", <<>>, <<>>)
FunctionDef(name) == Node("FunctionDef", name, <<>>)
Name(id) == Node("Name", id, <<>>)
Attribute == Node("Attribute", <<>>, <<>>)
Assign(targets) == Node("Assign", <<>>, targets)

\* The value ast.parse returns, or the None _get_tree returns instead.
Tree(nodes) == [isNone |-> FALSE, nodes |-> nodes]
NoneTree == [isNone |-> TRUE, nodes |-> <<>>]

\* ----------------------------------------------------------------- corpus

w_get_x == <<"g", "e", "t", U, "x">>
w_Get_x == <<"G", "e", "t", U, "x">>
w_run == <<"r", "u", "n">>
w_set == <<"s", "e", "t">>
w_set_x_b == <<"s", "e", "t", U, "x", U, "b">>
w_x == <<"x">>
w_b == <<U, "b">>
w_under == <<U>>
w_dunder_a == <<U, U, "a", U, U>>
w_dunder_Init == <<U, U, "I", U, U>>
w_dunder == <<U, U>>

\* a.py:  def Get_x(): ...  def __I__(): ...  run = ...; self.y = ...;
\*        __a__ = _b = ...;  and the Name nodes the walk meets.
TreeA ==
    Tree(<< ModuleNode,
            FunctionDef(w_Get_x),
            FunctionDef(w_dunder_Init),
            Assign(<<Name(w_run)>>),
            Assign(<<Attribute>>),
            Assign(<<Name(w_dunder_a), Name(w_b)>>),
            Name(w_run),
            Attribute,
            Name(w_dunder_a),
            Name(w_b),
            Name(w_get_x),
            Name(w_run) >>)

\* c.py:  def run(): ...  x = ...; _ = ...; __ = ...
TreeC ==
    Tree(<< ModuleNode,
            FunctionDef(w_run),
            Assign(<<Name(w_x)>>),
            Assign(<<Name(w_under)>>),
            Assign(<<Name(w_dunder)>>),
            Name(w_x),
            Name(w_under),
            Name(w_dunder) >>)

\* s.pyi: def set(): ...  def set_x_b(): ...  x
TreeS == Tree(<< ModuleNode, FunctionDef(w_set), FunctionDef(w_set_x_b), Name(w_x) >>)

\* An empty source file parses to a Module without children.
TreeEmpty == Tree(<< ModuleNode >>)

File(name, readable, parses, tree) ==
    [name |-> name, readable |-> readable, parses |-> parses, tree |-> tree]

PY == <<".", "p", "y">>
PYI == <<".", "p", "y", "i">>
TXT == <<".", "t", "x", "t">>
Y == <<"p", "y">>

Digit(d) == CASE d = 0 -> "0" [] d = 1 -> "1" [] d = 2 -> "2" [] d = 3 -> "3"
              [] d = 4 -> "4" [] d = 5 -> "5" [] d = 6 -> "6" [] d = 7 -> "7"
              [] d = 8 -> "8" [] OTHER -> "9"

\* m07.py, m12.py, ...: distinct names for the files of a large directory.
NumberedName(i) == <<"m", Digit((i \div 10) % 10), Digit(i % 10)>> \o PY

\* What os.walk(path, topdown=True) yields for each directory content: the
\* sequence of directories, each the sequence of its files in listing order.
ProjDirs ==
    << << File(<<"a">> \o PY, TRUE, TRUE, TreeA),
          File(<<"b">> \o PY, TRUE, FALSE, NoneTree),
          File(<<"n">> \o TXT, TRUE, FALSE, NoneTree),
          File(<<"s">> \o PYI, TRUE, TRUE, TreeS) >>,
       << File(<<"c">> \o PY, TRUE, TRUE, TreeC) >> >>

LockedDirs ==
    << << File(<<"c">> \o PY, TRUE, TRUE, TreeC),
          File(<<"u">> \o PY, FALSE, TRUE, TreeA),
          File(<<"s">> \o PYI, TRUE, TRUE, TreeS) >> >>

BigDir(d) ==
    [i \in 1..BigDirFiles |->
        IF d = 1 /\ i = 1 THEN File(NumberedName(i), TRUE, TRUE, TreeC)
        ELSE IF d = 1 /\ i = 2 THEN File(NumberedName(i), TRUE, FALSE, NoneTree)
        ELSE File(NumberedName(i), TRUE, TRUE, TreeEmpty)]

BigDirs == [d \in 1..BigDirCount |-> BigDir(d)]

Contents == {"proj", "emptydir", "missing", "locked", "big"}

Walk(content) ==
    CASE content = "proj" -> ProjDirs
      [] content = "emptydir" -> << <<>> >>
      [] content = "locked" -> LockedDirs
      [] content = "big" -> BigDirs
      [] OTHER -> <<>>

\* ------------------------------------------------------------------- scan

\* _get_tree: open() raises for a file that cannot be read; a SyntaxError of
\* ast.parse is caught and None returned.
\* (variant: the SyntaxError is not caught)
GetTreeUncaught(file) ==
    IF ~file.readable THEN [exc |-> "OSError", tree |-> NoneTree]
    ELSE IF ~file.parses THEN [exc |-> "SyntaxError", tree |-> NoneTree]
    ELSE [exc |-> "none", tree |-> file.tree]

_get_tree(file) ==
    IF ~file.readable THEN [exc |-> "OSError", tree |-> NoneTree]
    ELSE IF ~file.parses THEN [exc |-> "none", tree |-> NoneTree]
    ELSE [exc |-> "none", tree |-> file.tree]

\* The state of one _get_trees_in_path call: the trees list, the files it
\* opened, the exception leaving it, and whether the inner loop hit break.
ScanStart == [exc |-> "none", trees |-> <<>>, opened |-> <<>>, broke |-> FALSE]

\* tree = _get_tree(filename); if tree: trees.append(tree)
Opened(acc, file, r) ==
    [exc |-> r.exc,
     trees |-> IF r.tree.isNone THEN acc.trees ELSE Append(acc.trees, r.tree),
     opened |-> Append(acc.opened, file.name),
     broke |-> FALSE]

\* the loop body for one file: only a file whose name ends with exp is opened
Visit(acc, file, exp) ==
    IF EndsWith(file.name, exp) THEN Opened(acc, file, _get_tree(file)) ELSE acc

\* for file in files: if len(trees) == 100: break ...   (an exception ends it)
\* (variant: the loop breaks only once the list is longer than the cap)
RECURSIVE ScanFilesLate(_, _, _, _)
ScanFilesLate(files, i, exp, acc) ==
    IF i > Len(files) \/ acc.exc # "none" THEN acc
    ELSE IF Len(acc.trees) > Cap THEN [acc EXCEPT !.broke = TRUE]
    ELSE ScanFilesLate(files, i + 1, exp, Visit(acc, files[i], exp))

RECURSIVE ScanFiles(_, _, _, _)
ScanFiles(files, i, exp, acc) ==
    IF i > Len(files) \/ acc.exc # "none" THEN acc
    ELSE IF Len(acc.trees) = Cap THEN [acc EXCEPT !.broke = TRUE]
    ELSE ScanFiles(files, i + 1, exp, Visit(acc, files[i], exp))

\* for dirname, dirs, files in os.walk(...): ... else: continue; break
RECURSIVE ScanDirs(_, _, _, _)
ScanDirs(dirs, d, exp, acc) ==
    IF d > Len(dirs) \/ acc.exc # "none" \/ acc.broke THEN acc
    ELSE ScanDirs(dirs, d + 1, exp, ScanFiles(dirs[d], 1, exp, acc))

_get_trees_in_path(content, exp) == ScanDirs(Walk(content), 1, exp, ScanStart)

\* ------------------------------------------------------------- extraction

Kinds == {"Function", "Local", "Name"}

RECURSIVE NodesOfType(_, _)
NodesOfType(nodes, type) ==
    IF nodes = <<>> THEN <<>>
    ELSE (IF Head(nodes).type = type THEN <<Head(nodes)>> ELSE <<>>)
         \o NodesOfType(Tail(nodes), type)

LoweredNames(defs) == [k \in DOMAIN defs |-> Lower(defs[k].ident)]
Idents(nodes) == [k \in DOMAIN nodes |-> nodes[k].ident]

\* AnalyzerFunctionNames._get_words_from_tree
FunctionNames(trees) ==
    _flat([t \in DOMAIN trees |->
             LoweredNames(NodesOfType(trees[t].nodes, "FunctionDef"))])

\* AnalyzerNames._get_words_from_tree
AllNames(trees) ==
    _flat([t \in DOMAIN trees |-> Idents(NodesOfType(trees[t].nodes, "Name"))])

\* node.targets[0] for every Assign node of one tree
TargetsZero(assigns) == [k \in DOMAIN assigns |-> assigns[k].targets[1]]
FirstTargets(tree) == TargetsZero(NodesOfType(tree.nodes, "Assign"))

\* getattr(word, 'id', None): only a Name node has an id
HasId(node) == node.type = "Name" /\ node.ident # <<>>

\* AnalyzerLocalVariables._get_words_from_tree: _list[0] of an empty _list
\* raises IndexError.
\* (variant: the per-tree lists are flattened instead of the first one taken)
LocalVariablesAllTrees(trees) ==
    IF Len(trees) = 0 THEN [exc |-> "IndexError", words |-> <<>>]
    ELSE [exc |-> "none",
          words |-> Idents(SelectSeq(_flat([t \in DOMAIN trees |-> FirstTargets(trees[t])]),
                                     HasId))]

LocalVariables(trees) ==
    IF Len(trees) = 0 THEN [exc |-> "IndexError", words |-> <<>>]
    ELSE [exc |-> "none", words |-> Idents(SelectSeq(FirstTargets(trees[1]), HasId))]

_get_words_from_tree(kind, trees) ==
    CASE kind = "Function" -> [exc |-> "none", words |-> FunctionNames(trees)]
      [] kind = "Name" -> [exc |-> "none", words |-> AllNames(trees)]
      [] OTHER -> LocalVariables(trees)

NotMagic(word) == ~_is_magic_name(word)

\* trees += self._get_trees_in_path(exp)
Extend(acc, s) ==
    [exc |-> s.exc, trees |-> acc.trees \o s.trees, opened |-> acc.opened \o s.opened]

\* for exp in self._exp: ...   (an exception ends it)
RECURSIVE ScanAll(_, _, _)
ScanAll(content, exps, acc) ==
    IF exps = <<>> \/ acc.exc # "none" THEN acc
    ELSE ScanAll(content, Tail(exps),
                 Extend(acc, _get_trees_in_path(content, Head(exps))))

\* The outcome of _set_words_list: set tells whether set_word_list was
\* reached, words is the list handed to it.
Outcome(s, e) ==
    [exc |-> IF s.exc # "none" THEN s.exc ELSE e.exc,
     set |-> s.exc = "none" /\ e.exc = "none",
     words |-> IF s.exc = "none" /\ e.exc = "none"
               THEN SelectSeq(e.words, NotMagic) ELSE <<>>,
     trees |-> s.trees,
     opened |-> s.opened]

Extract(kind, s) ==
    Outcome(s, IF s.exc = "none" THEN _get_words_from_tree(kind, s.trees)
               ELSE [exc |-> "none", words |-> <<>>])

\* _set_words_list
_set_words_list(kind, content, exps) ==
    Extract(kind, ScanAll(content, exps,
                          [exc |-> "none", trees |-> <<>>, opened |-> <<>>]))

\* ----------------------------------------------------------------- Report

\* Optional values: None is the empty sequence, a value v is <<v>>.
None == <<>>
Some(v) == <<v>>

\* pos_tag([wrd])[0][1]: the tag the external classifier gives one word.
pos_tag(wrd) ==
    CASE wrd = w_run -> "VB"
      [] wrd = w_set -> "VB"
      [] wrd = <<"g", "e", "t">> -> "VB"
      [] OTHER -> "NN"

\* Report._is_word_type, given whether the classifier is available: the
\* empty word is never handed to the classifier.
\* (variant: the tag is compared with the class a new Report starts with)
IsWordTypeDefault(wrd, word_type) ==
    IF wrd = <<>> THEN FALSE ELSE pos_tag(wrd) = "VB"

_is_word_type(wrd, word_type) ==
    IF wrd = <<>> THEN FALSE ELSE pos_tag(wrd) = word_type

\* Report.filter_word_type: the list comprehension raises on the first
\* non-empty word when the classifier fails, and self.words is then not
\* assigned.
filter_word_type(words, word_type, tagger_ok) ==
    LET Keep(w) == _is_word_type(w, word_type)
        NonEmpty(w) == w # <<>>
    IN  IF ~tagger_ok /\ SelectSeq(words, NonEmpty) # <<>>
        THEN [exc |-> "LookupError", words |-> words]
        ELSE [exc |-> "none", words |-> SelectSeq(words, Keep)]

\* fullname.split('_'): the pieces between underscores, empty ones included.
\* (variant: split('_', 1), which cuts at the first underscore only)
RECURSIVE StrSplitOnce(_, _)
StrSplitOnce(s, piece) ==
    IF s = <<>> THEN <<piece>>
    ELSE IF Head(s) = U THEN <<piece, Tail(s)>>
    ELSE StrSplitOnce(Tail(s), Append(piece, Head(s)))

RECURSIVE StrSplit(_, _)
StrSplit(s, piece) ==
    IF s = <<>> THEN <<piece>>
    ELSE IF Head(s) = U THEN <<piece>> \o StrSplit(Tail(s), <<>>)
    ELSE StrSplit(Tail(s), Append(piece, Head(s)))

\* split_snake_case_name_to_words
\* (variant: one-letter pieces are dropped together with the empty ones)
SplitKeepsLong(fullname) ==
    LET Long(name) == Len(name) > 1
    IN  SelectSeq(StrSplit(fullname, <<>>), Long)

split_snake_case_name_to_words(fullname) ==
    LET NonEmpty(name) == name # <<>>
    IN  SelectSeq(StrSplit(fullname, <<>>), NonEmpty)

\* Report.split_all_words
split_all_words(words) ==
    _flat([i \in DOMAIN words |-> split_snake_case_name_to_words(words[i])])

\* A report entry: the word and its count; the '' of an untruncated report
\* is the empty count.
Entry(word, count) == [word |-> word, count |-> count]

RECURSIVE Occurrences(_, _)
Occurrences(word, words) ==
    IF words = <<>> THEN 0
    ELSE (IF Head(words) = word THEN 1 ELSE 0) + Occurrences(word, Tail(words))

\* collections.Counter(words): one (word, count) item per distinct word, in
\* the order of first insertion.
RECURSIVE CounterItems(_, _, _)
CounterItems(words, i, items) ==
    IF i > Len(words) THEN items
    ELSE IF \E k \in DOMAIN items : items[k].word = words[i]
         THEN CounterItems(words, i + 1, items)
         ELSE CounterItems(words, i + 1,
                 Append(items, Entry(words[i], Some(Occurrences(words[i], words)))))

\* sorted(items, key=count, reverse=True): a stable insertion of each item
\* behind the items whose count is not smaller.
RECURSIVE InsertByCount(_, _)
InsertByCount(sorted, item) ==
    IF sorted = <<>> THEN <<item>>
    ELSE IF Head(sorted).count[1] >= item.count[1]
         THEN <<Head(sorted)>> \o InsertByCount(Tail(sorted), item)
         ELSE <<item>> \o sorted

RECURSIVE SortByCount(_, _)
SortByCount(items, sorted) ==
    IF items = <<>> THEN sorted
    ELSE SortByCount(Tail(items), InsertByCount(sorted, Head(items)))

Take(seq, n) == SubSeq(seq, 1, IF n < Len(seq) THEN n ELSE Len(seq))

\* Counter(words).most_common(n) for n >= 0
most_common(words, n) == Take(SortByCount(CounterItems(words, 1, <<>>), <<>>), n)

\* if self._top_size: both None and 0 are false
Truthy(top) == top # None /\ top[1] # 0

\* Report.create_report
create_report(words, top) ==
    IF Truthy(top) THEN most_common(words, top[1])
    ELSE [i \in DOMAIN words |-> Entry(words[i], None)]


\* ------------------------------------------------------------------ state

VARIABLES
    kind,           \* which _AbstractAnalyzerBuilder subclass the builder is
    path,           \* self.path
    exp,            \* self._exp
    hasReport,      \* whether self._report exists
    words,          \* self._report.words
    word_type,      \* self._report._word_type
    top_size,       \* self._report._top_size
    trees,          \* the trees list of the last _set_words_list
    opened,         \* the files the last _set_words_list opened, in order
    lastOp,         \* the last call made
    exc,            \* the exception that call raised, or "none"
    ret,            \* the report that call returned (create_report), or <<>>
    before,         \* the report's words and top size when that call began
    requested,      \* history: the class of the last filter that returned
                    \* since the report was made, or None
    splitAfter,     \* history: split() was called since that filter
    removed,        \* history: the words filters took out of this report
    repo,           \* what the directory ./PyGithub holds
    pc,             \* the command-line program's position
    args,           \* its parsed arguments
    analyzer_manager,   \* "instance" or "class": what _filters_dict.get gave
    output_manager,     \* the sink chosen, and whether an instance or the class
    written         \* what output_report wrote: the sink and the entries

bvars == <<kind, path, exp, hasReport, words, word_type, top_size, trees,
           opened, lastOp, exc, ret, before, requested, splitAfter, removed>>
mvars == <<repo, pc, args, analyzer_manager, output_manager, written>>
vars == <<bvars, mvars>>

\* path_to = "./PyGithub"
PathTo == "./PyGithub"

Paths == {"./", "empty", "locked", "big", PathTo}

ExpLists == { <<PY>>, <<PYI, PY>>, <<PY, Y>>, <<TXT>> }

\* What the file system holds under a path.
DiskContent(p, cloned) ==
    CASE p = "./" -> "proj"
      [] p = "empty" -> "emptydir"
      [] p = PathTo -> cloned
      [] OTHER -> p

\* The outcome of _set_words_list for every builder class, directory content
\* and extension list.
WordsListOf[k \in Kinds, c \in Contents, e \in ExpLists] == _set_words_list(k, c, e)

NoArgs == [filter |-> "", wordtype |-> "", output |-> ""]
NoManager == [sink |-> "console", is |-> "instance"]
NothingWritten == [sink |-> "none", entries |-> <<>>]

Snapshot == [words |-> words, top_size |-> top_size,
             requested |-> requested, splitAfter |-> splitAfter]

\* ---------------------------------------------------------------- builder

\* _AbstractAnalyzerBuilder.__init__: path and the default extension list;
\* no _report attribute yet.
\* (variant: the constructor makes an empty Report)
BuilderInitWithReport(k, p) ==
    /\ kind = k
    /\ path = p
    /\ exp = <<PY>>
    /\ hasReport = TRUE
    /\ words = <<>>
    /\ word_type = "VB"
    /\ top_size = None
    /\ trees = <<>>
    /\ opened = <<>>
    /\ lastOp = "__init__"
    /\ exc = "none"
    /\ ret = <<>>
    /\ before = [words |-> <<>>, top_size |-> None,
                 requested |-> None, splitAfter |-> FALSE]
    /\ requested = None
    /\ splitAfter = FALSE
    /\ removed = {}

BuilderInit(k, p) ==
    /\ kind = k
    /\ path = p
    /\ exp = <<PY>>
    /\ hasReport = FALSE
    /\ words = <<>>
    /\ word_type = "VB"
    /\ top_size = None
    /\ trees = <<>>
    /\ opened = <<>>
    /\ lastOp = "__init__"
    /\ exc = "none"
    /\ ret = <<>>
    /\ before = [words |-> <<>>, top_size |-> None,
                 requested |-> None, splitAfter |-> FALSE]
    /\ requested = None
    /\ splitAfter = FALSE
    /\ removed = {}

\* (variant: the existing Report is refilled instead of a new one being made)
DoResetSameReport(op, r) ==
    /\ hasReport' = TRUE
    /\ UNCHANGED <<word_type, top_size>>
    /\ words' = r.words
    /\ trees' = r.trees
    /\ opened' = r.opened
    /\ exc' = r.exc
    /\ ret' = <<>>
    /\ lastOp' = op
    /\ before' = Snapshot
    /\ requested' = None
    /\ splitAfter' = FALSE
    /\ removed' = {}

\* reset: self._report = Report(); self._set_words_list()
DoReset(op, r) ==
    /\ hasReport' = TRUE
    /\ word_type' = "VB"
    /\ top_size' = None
    /\ words' = r.words
    /\ trees' = r.trees
    /\ opened' = r.opened
    /\ exc' = r.exc
    /\ ret' = <<>>
    /\ lastOp' = op
    /\ before' = Snapshot
    /\ requested' = None
    /\ splitAfter' = FALSE
    /\ removed' = {}

\* a call on self._report before any reset: AttributeError, nothing changes
NoReport(op) ==
    /\ ~hasReport
    /\ lastOp' = op
    /\ exc' = "AttributeError"
    /\ ret' = <<>>
    /\ before' = Snapshot
    /\ UNCHANGED <<kind, path, exp, hasReport, words, word_type, top_size, trees, opened>>
    /\ UNCHANGED <<requested, splitAfter, removed>>

Called(op) ==
    /\ hasReport
    /\ lastOp' = op
    /\ before' = Snapshot
    /\ UNCHANGED <<kind, path, exp, hasReport, trees, opened>>

reset ==
    /\ DoReset("reset", WordsListOf[kind, DiskContent(path, repo), exp])
    /\ UNCHANGED <<kind, path, exp>>

set_path(p) ==
    /\ path' = p
    /\ DoReset("set_path", WordsListOf[kind, DiskContent(p, repo), exp])
    /\ UNCHANGED <<kind, exp>>

set_exp(e) ==
    /\ exp' = e
    /\ DoReset("set_exp", WordsListOf[kind, DiskContent(path, repo), e])
    /\ UNCHANGED <<kind, path>>

\* (variant: all() keeps the size that was set)
SizeKept(top) == top

\* self._report.set_top_size(None)
AllSize(top) == None

all ==
    \/ NoReport("all")
    \/ /\ Called("all")
       /\ top_size' = AllSize(top_size)
       /\ exc' = "none"
       /\ ret' = <<>>
       /\ UNCHANGED <<words, word_type, requested, splitAfter, removed>>

top(n) ==
    \/ NoReport("top")
    \/ /\ Called("top")
       /\ top_size' = Some(n)
       /\ exc' = "none"
       /\ ret' = <<>>
       /\ UNCHANGED <<words, word_type, requested, splitAfter, removed>>

\* (variant: the filter is run on the words as they were extracted)
FilteredAnew(wt, r) ==
    /\ word_type' = wt
    /\ words' = IF r.exc = "none"
                THEN filter_word_type(WordsListOf[kind, DiskContent(path, repo), exp].words,
                                      wt, TRUE).words
                ELSE words
    /\ exc' = r.exc
    /\ ret' = <<>>
    /\ UNCHANGED top_size
    /\ IF r.exc = "none"
       THEN /\ requested' = Some(wt)
            /\ splitAfter' = FALSE
            /\ removed' = removed \cup ({words[i] : i \in DOMAIN words}
                                          \ {r.words[i] : i \in DOMAIN r.words})
       ELSE UNCHANGED <<requested, splitAfter, removed>>

\* self._report.filter_word_type(wt), and what the call adds to the history
Filtered(wt, r) ==
    /\ word_type' = wt
    /\ words' = r.words
    /\ exc' = r.exc
    /\ ret' = <<>>
    /\ UNCHANGED top_size
    /\ IF r.exc = "none"
       THEN /\ requested' = Some(wt)
            /\ splitAfter' = FALSE
            /\ removed' = removed \cup ({words[i] : i \in DOMAIN words}
                                          \ {r.words[i] : i \in DOMAIN r.words})
       ELSE UNCHANGED <<requested, splitAfter, removed>>

Filter(op, wt, tagger_ok) ==
    \/ NoReport(op)
    \/ /\ Called(op)
       /\ Filtered(wt, filter_word_type(words, wt, tagger_ok))

filter_verb == \E tagger_ok \in BOOLEAN : Filter("filter_verb", "VB", tagger_ok)

filter_noun == \E tagger_ok \in BOOLEAN : Filter("filter_noun", "NN", tagger_ok)

split ==
    \/ NoReport("split")
    \/ /\ Called("split")
       /\ words' = split_all_words(words)
       /\ exc' = "none"
       /\ ret' = <<>>
       /\ splitAfter' = (requested # None)
       /\ UNCHANGED <<word_type, top_size, requested, removed>>

\* analyzer.report.create_report()
\* (variant: building the report uses the top size up)
ReportCreateReportConsumes ==
    \/ NoReport("create_report")
    \/ /\ Called("create_report")
       /\ ret' = create_report(words, top_size)
       /\ exc' = "none"
       /\ top_size' = None
       /\ UNCHANGED <<words, word_type, requested, splitAfter, removed>>

report_create_report ==
    \/ NoReport("create_report")
    \/ /\ Called("create_report")
       /\ ret' = create_report(words, top_size)
       /\ exc' = "none"
       /\ UNCHANGED <<words, word_type, top_size, requested, splitAfter, removed>>

Init ==
    /\ \E k \in Kinds : BuilderInit(k, "./")
    /\ repo = "missing"
    /\ pc = "library"
    /\ args = NoArgs
    /\ analyzer_manager = "instance"
    /\ output_manager = NoManager
    /\ written = NothingWritten

\* The calls a user of the builder can make, in any order.
Reset == reset /\ UNCHANGED mvars
SetPath == (\E p \in Paths : set_path(p)) /\ UNCHANGED mvars
SetExp == (\E e \in ExpLists : set_exp(e)) /\ UNCHANGED mvars
All == all /\ UNCHANGED mvars
Top == (\E n \in 0..MaxTop : top(n)) /\ UNCHANGED mvars
FilterVerb == filter_verb /\ UNCHANGED mvars
FilterNoun == filter_noun /\ UNCHANGED mvars
Split == split /\ UNCHANGED mvars
CreateReport == report_create_report /\ UNCHANGED mvars

Next ==
    \/ Reset
    \/ SetPath
    \/ SetExp
    \/ All
    \/ Top
    \/ FilterVerb
    \/ FilterNoun
    \/ Split
    \/ CreateReport

Spec == Init /\ [][Next]_vars


\* --------------------------------------------------- command-line program

\* The values given to --filter, --wordtype and --output; "" stands for an
\* absent option (None) and for the empty string, both false in Python.
FilterArgs == {"", "Function", "Local", "Name", "function"}
WordtypeArgs == {"", "VB", "NN", "JJ"}
OutputArgs == {"", "console", "json", "csv", "xml"}

\* filter = args.filter if args.filter else "Name"
FilterOf(a) == IF a.filter # "" THEN a.filter ELSE "Name"
\* output = args.output if args.output else "console"
OutputOf(a) == IF a.output # "" THEN a.output ELSE "console"

\* _filters_dict.get(filter, AnalyzerNames): an instance for a key of the
\* dictionary, the class AnalyzerNames itself otherwise.
AnalyzerFor(filter) ==
    IF filter \in {"Function", "Name", "Local"}
    THEN [kind |-> filter, is |-> "instance"]
    ELSE [kind |-> "Name", is |-> "class"]

\* _outputs_dict.get(output, ConsoleOutputReport)
OutputFor(output) ==
    IF output \in {"console", "json", "csv"}
    THEN [sink |-> output, is |-> "instance"]
    ELSE [sink |-> "console", is |-> "class"]

\* The three analyzers are constructed with the default path; the state kept
\* is that of the one the program goes on to use.
MainInit ==
    /\ \E f \in FilterArgs, w \in WordtypeArgs, o \in OutputArgs :
          /\ args = [filter |-> f, wordtype |-> w, output |-> o]
          /\ BuilderInit(AnalyzerFor(FilterOf(args)).kind, "./")
    /\ repo \in {"missing", "emptydir"}
    /\ pc = "select"
    /\ analyzer_manager = "instance"
    /\ output_manager = NoManager
    /\ written = NothingWritten

\* lines 241-248
main_select ==
    /\ pc = "select"
    /\ pc' = "clone"
    /\ analyzer_manager' = AnalyzerFor(FilterOf(args)).is
    /\ output_manager' = OutputFor(OutputOf(args))
    /\ UNCHANGED <<bvars, repo, args, written>>

\* lines 253-256: the clone fills ./PyGithub, or fails (the exception is
\* caught and printed) and leaves the directory as it was.
main_clone ==
    /\ pc = "clone"
    /\ pc' = "set_path"
    /\ \/ repo' \in {"proj", "locked"}
       \/ UNCHANGED repo
    /\ UNCHANGED <<bvars, args, analyzer_manager, output_manager, written>>

\* a method looked up on the class and called with one argument short
TypeError(op) ==
    /\ lastOp' = op
    /\ exc' = "TypeError"
    /\ ret' = <<>>
    /\ before' = Snapshot
    /\ UNCHANGED <<kind, path, exp, hasReport, words, word_type, top_size, trees, opened>>
    /\ UNCHANGED <<requested, splitAfter, removed>>

After(next) == pc' = IF exc' = "none" THEN next ELSE "crashed"

\* line 259
main_set_path ==
    /\ pc = "set_path"
    /\ \/ analyzer_manager = "class" /\ TypeError("set_path")
       \/ analyzer_manager = "instance" /\ set_path(PathTo)
    /\ After("wordtype")
    /\ UNCHANGED <<repo, args, analyzer_manager, output_manager, written>>

\* lines 261-264
main_wordtype ==
    /\ pc = "wordtype"
    /\ \/ args.wordtype = "VB" /\ filter_verb /\ After("top")
       \/ args.wordtype = "NN" /\ filter_noun /\ After("top")
       \/ args.wordtype \notin {"VB", "NN"} /\ pc' = "top" /\ UNCHANGED bvars
    /\ UNCHANGED <<repo, args, analyzer_manager, output_manager, written>>

\* line 266
main_top ==
    /\ pc = "top"
    /\ top(DefaultTopSize)
    /\ After("create_report")
    /\ UNCHANGED <<repo, args, analyzer_manager, output_manager, written>>

\* line 269
main_create_report ==
    /\ pc = "create_report"
    /\ report_create_report
    /\ After("output")
    /\ UNCHANGED <<repo, args, analyzer_manager, output_manager, written>>

\* line 271: the console prints at most 200 entries, the files take them all
main_output ==
    /\ pc = "output"
    /\ \/ /\ output_manager.is = "class"
          /\ TypeError("output_report")
          /\ UNCHANGED written
       \/ /\ output_manager.is = "instance"
          /\ written' = [sink |-> output_manager.sink,
                         entries |-> IF output_manager.sink = "console"
                                     THEN Take(ret, ConsoleTopSize) ELSE ret]
          /\ lastOp' = "output_report"
          /\ exc' = "none"
          /\ before' = Snapshot
          /\ UNCHANGED <<kind, path, exp, hasReport, words, word_type, top_size,
                         trees, opened, ret, requested, splitAfter, removed>>
    /\ After("done")
    /\ UNCHANGED <<repo, args, analyzer_manager, output_manager>>

MainNext ==
    \/ main_select
    \/ main_clone
    \/ main_set_path
    \/ main_wordtype
    \/ main_top
    \/ main_create_report
    \/ main_output

MainSpec == MainInit /\ [][MainNext]_vars


\* ----------------------------------------------------------------- claims

ResetOps == {"reset", "set_path", "set_exp"}

HasUnderscore(w) == \E i \in DOMAIN w : w[i] = U
Range(seq) == {seq[i] : i \in DOMAIN seq}

\* The words the builder's extractor yields for the builder's current path
\* and extension list, dunder names removed.
CurrentExtraction ==
    SelectSeq(
        _get_words_from_tree(kind,
            ScanAll(DiskContent(path, repo), exp,
                    [exc |-> "none", trees |-> <<>>, opened |-> <<>>]).trees).words,
        NotMagic)

\* C1: when set_path(p) or set_exp(e) returns, whatever filter, split, top
\* and all calls came before, the report's word list is the dunder-filtered
\* extraction from the builder's current path and extension list and no top
\* size is set.
C1_ResetRebuilds ==
    (lastOp \in {"set_path", "set_exp"} /\ exc = "none") =>
        /\ hasReport
        /\ top_size = None
        /\ words = CurrentExtraction

\* set_path returned after a top size had been set and the words had been
\* split and filtered down; the unsplit words are back.
C1_Witness ==
    /\ lastOp = "set_path"
    /\ exc = "none"
    /\ before.top_size = Some(2)
    /\ before.words # <<>>
    /\ \A w \in Range(before.words) : ~HasUnderscore(w)
    /\ Len(words) > Len(before.words)
    /\ \E w \in Range(words) : HasUnderscore(w)

\* one entry with an empty count per occurrence, in word-list order
Untruncated(ws) == [i \in DOMAIN ws |-> [word |-> ws[i], count |-> <<>>]]

\* C4: all() after top(n) leaves no size behind: the word list is untouched
\* and a report built then has one (word, empty count) entry per occurrence,
\* in word-list order; a report built while no size is set is that list.
C4_AllDiscardsSize ==
    /\ (lastOp = "all" /\ exc = "none") =>
          /\ top_size = None
          /\ words = before.words
          /\ create_report(words, top_size) = Untruncated(words)
    /\ (lastOp = "create_report" /\ exc = "none" /\ top_size = None) =>
          ret = Untruncated(words)

\* all() was called while top(1) was in force, on a word list with a repeated
\* word.
C4_Witness ==
    /\ lastOp = "all"
    /\ exc = "none"
    /\ before.top_size = Some(1)
    /\ \E i, j \in DOMAIN words : i < j /\ words[i] = words[j]
    /\ Len(create_report(words, top_size)) = Len(words)

BeginsAndEndsWithDunder(w) ==
    /\ Len(w) >= 2
    /\ w[1] = U /\ w[2] = U
    /\ w[Len(w) - 1] = U /\ w[Len(w)] = U

\* C5: no word of the report's word list and no word of a built report
\* begins and ends with a double underscore, for each of the three
\* extractors and after any builder call.
C5_NoDunder ==
    /\ \A i \in DOMAIN words : ~BeginsAndEndsWithDunder(words[i])
    /\ \A i \in DOMAIN ret : ~BeginsAndEndsWithDunder(ret[i].word)

\* a report was built from trees in which the extractor met a dunder name
C5_Witness ==
    /\ lastOp = "create_report"
    /\ ret # <<>>
    /\ \E w \in Range(_get_words_from_tree(kind, trees).words) :
          BeginsAndEndsWithDunder(w)

\* The files under a directory content in walk order, and the trees of those
\* that end with exp and parse, cut to the first Cap.
AllFiles(content) == _flat(Walk(content))
ParsedMatching(content, e) ==
    LET Good(f) == EndsWith(f.name, e) /\ f.parses
        good == SelectSeq(AllFiles(content), Good)
    IN  [i \in 1..(IF Len(good) < Cap THEN Len(good) ELSE Cap) |-> good[i].tree]
ExpectedTrees(content, exps) ==
    _flat([k \in DOMAIN exps |-> ParsedMatching(content, exps[k])])

\* C8: a matching file that fails to parse adds no tree and raises nothing
\* out of the scan, and the files after it are still parsed: the scan gives
\* exactly the trees of the matching files that parse.
C8_SyntaxErrorSkipped ==
    (lastOp \in ResetOps /\ exc # "OSError") =>
        /\ exc # "SyntaxError"
        /\ trees = ExpectedTrees(DiskContent(path, repo), exp)

\* b.py does not parse: a.py before it and c.py after it gave the two trees
C8_Witness ==
    /\ lastOp \in ResetOps
    /\ exc = "none"
    /\ path = "./"
    /\ exp = <<PY>>
    /\ opened = << <<"a">> \o PY, <<"b">> \o PY, <<"c">> \o PY >>
    /\ trees = <<TreeA, TreeC>>


\* the index of the first occurrence of a word of the list
FirstIndex(w, ws) == CHOOSE i \in DOMAIN ws : ws[i] = w /\ \A j \in 1..(i - 1) : ws[j] # w

Built == lastOp = "create_report" /\ exc = "none"

\* C2: with top(n) set, n >= 0, create_report returns at most n entries,
\* each count is the number of occurrences of its word in the word list, and
\* the counts do not increase along the report.
C2_TopBounded ==
    (Built /\ top_size # None) =>
        /\ Len(ret) <= top_size[1]
        /\ \A i \in DOMAIN ret : ret[i].count = Some(Occurrences(ret[i].word, words))
        /\ \A i, j \in DOMAIN ret :
              i < j => Occurrences(ret[i].word, words) >= Occurrences(ret[j].word, words)

\* C3: with a top size set, the returned words are distinct, equal counts
\* come in the order of first occurrence, and a word left out neither has a
\* higher count than a returned word nor an equal count and an earlier first
\* occurrence.
C3_TopDistinctStable ==
    (Built /\ top_size # None) =>
        /\ \A i, j \in DOMAIN ret : i < j => ret[i].word # ret[j].word
        /\ \A i, j \in DOMAIN ret :
              (i < j /\ Occurrences(ret[i].word, words) = Occurrences(ret[j].word, words))
                 => FirstIndex(ret[i].word, words) < FirstIndex(ret[j].word, words)
        /\ \A w \in Range(words) \ {ret[i].word : i \in DOMAIN ret} :
              \A i \in DOMAIN ret :
                 /\ Occurrences(w, words) <= Occurrences(ret[i].word, words)
                 /\ Occurrences(w, words) = Occurrences(ret[i].word, words)
                       => FirstIndex(ret[i].word, words) < FirstIndex(w, words)

\* C6: a scan that ends with zero trees leaves an empty word list and an
\* empty report and raises nothing, for each of the three extractors.
C6_ZeroTreesEmptyReport ==
    (lastOp \in ResetOps /\ exc # "OSError" /\ trees = <<>>) =>
        /\ exc = "none"
        /\ words = <<>>
        /\ create_report(words, top_size) = <<>>

\* C9: a matching file that cannot be opened is skipped: no failure to read
\* a file leaves reset, set_path or set_exp.
C9_UnreadableSkipped == lastOp \in ResetOps => exc # "OSError"

\* the files of a directory content whose name ends with one of the extensions
Matching(content, exps) ==
    LET M(f) == \E k \in DOMAIN exps : EndsWith(f.name, exps[k])
    IN  SelectSeq(AllFiles(content), M)
Parses(f) == f.parses

\* C10: when at most 100 files match, the number of trees handed to the
\* extractor is the number of matching files that parse.
C10_OneTreePerParsedFile ==
    (/\ lastOp \in ResetOps
     /\ exc # "OSError"
     /\ Len(Matching(DiskContent(path, repo), exp)) <= Cap) =>
        Len(trees) = Len(SelectSeq(Matching(DiskContent(path, repo), exp), Parses))

\* C7: an unknown --filter value behaves as Name and an unknown --output
\* value as console: the run does not fail on the value it fell back from.
C7_UnknownFallsBack ==
    (FilterOf(args) \notin {"Function", "Local", "Name"}
        \/ OutputOf(args) \notin {"console", "json", "csv"})
    => exc # "TypeError"

StageOps == {"all", "top", "filter_verb", "filter_noun", "split"}
FilterOps == {"filter_verb", "filter_noun"}

\* the number of maximal underscore-free runs of a word
SegCount(w) ==
    Cardinality({k \in DOMAIN w : w[k] # U /\ (k = 1 \/ w[k - 1] = U)})

\* the number of segments the first n words of a list give
RECURSIVE SegsBefore(_, _)
SegsBefore(ws, n) == IF n = 0 THEN 0 ELSE SegsBefore(ws, n - 1) + SegCount(ws[n])

\* C11: split() replaces every word without an underscore by exactly one
\* segment equal to the word, at the same relative position: behind the
\* segments of the words before it and before those of the words after it.
C11_PlainWordKept ==
    (lastOp = "split" /\ exc = "none") =>
        /\ Len(words) = SegsBefore(before.words, Len(before.words))
        /\ \A i \in DOMAIN before.words :
              ~HasUnderscore(before.words[i]) =>
                 /\ SegsBefore(before.words, i) = SegsBefore(before.words, i - 1) + 1
                 /\ words[SegsBefore(before.words, i)] = before.words[i]

\* split() met a plain word behind a word that gave two segments and before
\* a word that gave none
C11_Witness ==
    /\ lastOp = "split"
    /\ exc = "none"
    /\ \E i, j, k \in DOMAIN before.words :
          /\ i < j /\ j < k
          /\ SegCount(before.words[i]) = 2
          /\ ~HasUnderscore(before.words[j])
          /\ before.words[k] = w_under
          /\ words[SegsBefore(before.words, j)] = before.words[j]

\* C12: when the classifier fails during filter_verb / filter_noun, the
\* filter still completes: nothing is raised to the caller and no word the
\* classifier could not tag stays in the word list.
C12_ClassifierFailureContained ==
    (lastOp \in FilterOps /\ hasReport) =>
        /\ exc = "none"
        /\ \A w \in Range(words) : pos_tag(w) = word_type

\* The names of the files one scan for one extension opens: the matching
\* files in walk order, up to and including the one that gives the Cap-th
\* tree.
OpenedInScan(content, e) ==
    LET M(f) == EndsWith(f.name, e)
        matching == SelectSeq(AllFiles(content), M)
        ParsedIn(k) == Cardinality({j \in 1..k : matching[j].parses})
        Full == {k \in DOMAIN matching : ParsedIn(k) = Cap}
        last == IF Full = {} THEN Len(matching)
                ELSE CHOOSE k \in Full : \A m \in Full : k <= m
    IN  [i \in 1..last |-> matching[i].name]
ExpectedOpened(content, exps) ==
    _flat([k \in DOMAIN exps |-> OpenedInScan(content, exps[k])])

\* C13: one scan of one extension gives at most Cap trees and opens no file
\* once Cap trees are there; the trees handed to the extractor are the
\* trees of one such scan per extension, concatenated in extension order.
C13_CapPerExtension ==
    (lastOp \in ResetOps /\ exc # "OSError") =>
        /\ \A k \in DOMAIN exp :
              Len(_get_trees_in_path(DiskContent(path, repo), exp[k]).trees) <= Cap
        /\ Len(trees) <= Cap * Len(exp)
        /\ opened = ExpectedOpened(DiskContent(path, repo), exp)
        /\ trees = _flat([k \in DOMAIN exp |->
                            ParsedMatching(DiskContent(path, repo), exp[k])])

\* two extensions over a directory with more than Cap matching files: each
\* scan stopped at Cap trees, having opened one file that did not parse, and
\* left matching files unopened
C13_Witness ==
    /\ lastOp \in ResetOps
    /\ exc = "none"
    /\ Len(exp) = 2
    /\ Len(trees) = 2 * Cap
    /\ Len(opened) = 2 * (Cap + 1)
    /\ Len(Matching(DiskContent(path, repo), exp)) > Cap + 1

\* the identifiers of the Assign nodes of one tree whose first target is a
\* plain name, in walk order
IsAssign(node) == node.type = "Assign"
FirstTargetIsName(node) == node.targets[1].type = "Name"
NamedAssigns(tree) == SelectSeq(SelectSeq(tree.nodes, IsAssign), FirstTargetIsName)
FirstTargetNames(tree) ==
    [i \in DOMAIN NamedAssigns(tree) |-> NamedAssigns(tree)[i].targets[1].ident]
NotDunder(w) == ~BeginsAndEndsWithDunder(w)

\* C14: the local-variable extractor gives the identifiers of the first
\* tree's assignments only: of each Assign the first target, and only when it
\* is a plain name; the trees after the first add nothing.
C14_LocalFirstTreeOnly ==
    (kind = "Local" /\ lastOp \in ResetOps /\ exc = "none") =>
        /\ trees # <<>>
        /\ words = SelectSeq(FirstTargetNames(trees[1]), NotDunder)

\* the first tree holds an attribute assignment and a second target, a later
\* tree a plain assignment: none of the three reached the word list
C14_Witness ==
    /\ kind = "Local"
    /\ lastOp \in ResetOps
    /\ exc = "none"
    /\ Len(trees) >= 2
    /\ words # <<>>
    /\ \E n \in Range(trees[1].nodes) :
          n.type = "Assign" /\ n.targets[1].type = "Attribute"
    /\ \E n \in Range(trees[1].nodes) :
          /\ n.type = "Assign" /\ Len(n.targets) = 2
          /\ n.targets[2].type = "Name" /\ n.targets[2].ident \notin Range(words)
    /\ \E n \in Range(trees[2].nodes) :
          /\ n.type = "Assign" /\ n.targets[1].type = "Name"
          /\ NotDunder(n.targets[1].ident) /\ n.targets[1].ident \notin Range(words)

\* C15: the stages are idempotent: a second split() of a split word list
\* gives the same list, and so does a second filter for the same class
\* (the classifier gives a word the same tag each time).
C15_StagesIdempotent ==
    /\ (lastOp = "split" /\ exc = "none") => split_all_words(words) = words
    /\ (lastOp \in FilterOps /\ exc = "none") =>
          filter_word_type(words, word_type, TRUE) = [exc |-> "none", words |-> words]

\* split() was called on a list an earlier split() had lengthened, and
\* returned it as it was
C15_Witness ==
    /\ lastOp = "split"
    /\ exc = "none"
    /\ words = before.words
    /\ Len(words) > Len(CurrentExtraction)
    /\ \E w \in Range(CurrentExtraction) : SegCount(w) = 3

\* every word of a word list, or of a built report, has the tag cls
AllTagged(ws, cls) == \A i \in DOMAIN ws : pos_tag(ws[i]) = cls
ReportTagged(entries, cls) == \A i \in DOMAIN entries : pos_tag(entries[i].word) = cls

\* C16 (as claimed): once a filter has returned, a report built before the
\* next reset / set_path / set_exp holds only words of the requested class,
\* whatever split, top and all calls came between the filter and the build.
C16_FilterHoldsAnyOrder ==
    (Built /\ requested # None) => ReportTagged(ret, requested[1])

\* C16 (amended): once a filter has returned, and until the next reset /
\* set_path / set_exp or split, the word list and every report built from
\* it hold only words of the class of the latest filter that returned,
\* whatever top and all calls came between; a split() after the filter is
\* applied to the filtered list and its segments are not filtered again.
C16_FilterHoldsUntilSplit ==
    (requested # None /\ ~splitAfter) =>
        /\ AllTagged(words, requested[1])
        /\ Built => ReportTagged(ret, requested[1])

\* a report of one entry was built after filter_noun had taken words out
\* and top(1) was set, with no split since
C16_Witness ==
    /\ Built
    /\ requested = Some("NN")
    /\ ~splitAfter
    /\ top_size = Some(1)
    /\ Len(ret) = 1
    /\ Len(words) > 1
    /\ removed # {}

ReportOps == StageOps \cup {"create_report"}

\* C17: a new builder holds no report; while it holds none, reading the
\* report and calling filter_verb, filter_noun, split, top or all each raise
\* and leave the path and the extension list as they were; reset, set_path
\* and set_exp make a report, and a report once made never goes away.
C17_NoReportUntilReset ==
    /\ lastOp = "__init__" => ~hasReport
    /\ [][/\ (~hasReport /\ lastOp' \in ReportOps) =>
                /\ exc' = "AttributeError"
                /\ ~hasReport'
                /\ path' = path
                /\ exp' = exp
          /\ lastOp' \in ResetOps => hasReport'
          /\ hasReport => hasReport'
          /\ (~hasReport /\ hasReport') => lastOp' \in ResetOps]_vars

\* split() was called on a builder that was never reset: it raised, and the
\* builder is as the constructor left it
C17_Witness ==
    /\ lastOp = "split"
    /\ exc = "AttributeError"
    /\ ~hasReport
    /\ path = "./"
    /\ exp = <<PY>>

\* C18: top(n), all() and create_report() leave the word list as it was;
\* create_report() leaves the top size too, so that a second build in a row
\* returns the same entries; split() and the filters leave the top size; and
\* none of these calls changes the path or the extension list.
C18_StagesFrame ==
    [][/\ lastOp' \in {"top", "all", "create_report"} => words' = words
       /\ lastOp' = "create_report" => top_size' = top_size
       /\ (Built /\ lastOp' = "create_report") => ret' = ret
       /\ lastOp' \in {"split", "filter_verb", "filter_noun"} => top_size' = top_size
       /\ lastOp' \in ReportOps => (path' = path /\ exp' = exp)]_vars

\* a report of one entry was built under top(1) from a longer word list,
\* and list and size are as they were before the build
C18_Witness ==
    /\ Built
    /\ requested = None
    /\ top_size = Some(1)
    /\ before.top_size = Some(1)
    /\ Len(ret) = 1
    /\ Len(words) >= 2
    /\ words = before.words

\* a is b with some elements left out, the others in their order
RECURSIVE IsSubseq(_, _)
IsSubseq(a, b) ==
    IF a = <<>> THEN TRUE
    ELSE IF b = <<>> THEN FALSE
    ELSE IF Head(a) = Head(b) THEN IsSubseq(Tail(a), Tail(b))
    ELSE IsSubseq(a, Tail(b))

\* C19 (as claimed): after a filter call the word list is an
\* order-preserving subsequence of the list before it; a filter that follows
\* a filter keeps only the words of both classes; and a word a filter took
\* out is in the list again only after reset, set_path or set_exp.
C19_RemovedStayOut ==
    /\ (lastOp \in FilterOps /\ exc = "none") =>
          /\ IsSubseq(words, before.words)
          /\ (before.requested # None /\ ~before.splitAfter) =>
                (AllTagged(words, before.requested[1]) /\ AllTagged(words, word_type))
    /\ \A w \in removed : w \notin Range(words)

\* C19 (amended): a filter call leaves an order-preserving subsequence of
\* the list it met; a filter that follows a filter keeps only the words of
\* both classes; and a word a filter took out enters the list again only by
\* reset, set_path or set_exp, or as a segment that a later split() makes of
\* a word that was kept.
C19_FiltersCumulative ==
    [][/\ (lastOp' \in FilterOps /\ exc' = "none") =>
             /\ IsSubseq(words', words)
             /\ (requested # None /\ ~splitAfter) =>
                   (AllTagged(words', requested[1]) /\ AllTagged(words', word_type'))
       /\ lastOp' \notin (ResetOps \cup {"split"}) =>
             \A w \in removed' : w \in Range(words') => w \in Range(words)]_vars

\* filter_noun followed filter_verb on a list holding words of both classes:
\* no word has both tags, none is left, and all of them count as removed
C19_Witness ==
    /\ lastOp = "filter_noun"
    /\ exc = "none"
    /\ before.requested = Some("VB")
    /\ ~before.splitAfter
    /\ before.words # <<>>
    /\ words = <<>>
    /\ \E v, n \in removed : pos_tag(v) = "VB" /\ pos_tag(n) = "NN"


====
